---- MODULE Spec2Model ----
(***************************************************************************)
(* A model of librustc_data_structures/sync.rs: the write-once cell Once,  *)
(* the mutual-exclusion cell Lock and the read/write cell RwLock, in the   *)
(* two build configurations of the file (cfg(parallel_queries) on or off). *)
(*                                                                         *)
(* Threads run the operations of the file step by step.  A thread's call   *)
(* stack is a sequence of frames; a frame holds the guards its locals own, *)
(* so a guard is released exactly when its frame returns or is unwound by  *)
(* a panic, as Rust's drop rules prescribe.  A panic unwinds the whole     *)
(* call (the client catches it at the call boundary).                      *)
(***************************************************************************)
EXTENDS Integers, Sequences, FiniteSets, TLC

\* ------------------------------------------------------------- bounds
NumThreads == 2
MaxVal == 2
\* the OneThread wrappers a program makes: the original and its copies
MaxWrappers == 2
\* the WorkerLocal values a program makes
MaxLocals == 2
\* the tasks spawned inside one scope
MaxTasks == 3
\* the largest value kept in the Atomic
MaxAtomic == 4
\* the keys of the HashMap
MaxKeys == 3
\* the guards the client code of one thread keeps at a time
MaxGuards == 2

Threads == 1..NumThreads
Values == 1..MaxVal

\* ------------------------------------------------------------ constants
\* sync.rs:294  const ERROR_CHECKING: bool = false;
ERROR_CHECKING == FALSE

Modes == {"serial", "parallel"}

\* Option<T>: None is the empty sequence, Some(v) the one-element sequence.
None == <<>>
Some(v) == <<v>>

VARIABLES
    mode,       \* the build configuration: "serial" or "parallel"
    workload,   \* which operations the client program calls
    stack,      \* stack[t]: the call stack of thread t (sequence of frames)
    ret,        \* ret[t]: outcome of the last completed client call of t
    onceVal,    \* the Option<T> inside the Once's Lock
    writer,     \* ghost: who wrote the Once's cell, and how often
    hist,       \* ghost: counters of the Once's history
    finv,       \* ghost: finv[t] = pure closures run by init_nonlocking* on t
    held,       \* held[t]: guards the client code of thread t owns
    lockVal,    \* the value inside the Lock
    rwVal,      \* the value inside the RwLock
    oneThread,  \* the OneThread wrappers made: the original, then its copies
    workerLocal, \* the WorkerLocal values made
    joinSt,     \* the call of join in progress
    scopeSt,    \* the call of scope in progress
    atomic,     \* the value inside the Atomic
    hashMap     \* the HashMap insert_same works on

vars == <<mode, workload, stack, ret, onceVal, writer, hist, finv,
          held, lockVal, rwVal, oneThread, workerLocal, joinSt, scopeSt,
          atomic, hashMap>>

\* The state of the types that are neither Once, Lock nor RwLock.
libVars == <<oneThread, workerLocal, joinSt, scopeSt, atomic, hashMap>>
exceptOneThread == <<workerLocal, joinSt, scopeSt, atomic, hashMap>>
exceptWorkerLocal == <<oneThread, joinSt, scopeSt, atomic, hashMap>>
exceptJoin == <<oneThread, workerLocal, scopeSt, atomic, hashMap>>
exceptScope == <<oneThread, workerLocal, joinSt, atomic, hashMap>>
exceptAtomic == <<oneThread, workerLocal, joinSt, scopeSt, hashMap>>
exceptHashMap == <<oneThread, workerLocal, joinSt, scopeSt, atomic>>
coreVars == <<stack, onceVal, writer, hist, finv, held, lockVal, rwVal>>

onceVars == <<onceVal, writer, hist, finv>>
lockVars == <<held, lockVal, rwVal>>

\* In the serial configuration exactly one thread of control exists.
Active == IF mode = "serial" THEN {1} ELSE Threads

\* ----------------------------------------------------------- frames
NoG == [oc |-> 0, lk |-> 0, rd |-> 0, wr |-> 0]

Frame(op, pc, arg, fk, lvl) ==
    [op |-> op, pc |-> pc, arg |-> arg, fk |-> fk, lvl |-> lvl,
     g |-> NoG, inv |-> FALSE]

\* The history variables writer, hist and finv, and the argument and the
\* f-was-called flag kept with a call's outcome, record who stored what and
\* how often f ran, for the workloads whose properties speak of it; the
\* mixed and the reentrant workloads of every operation leave them as they
\* are.
Recorded(new, old) ==
    IF workload \in {"mixed", "reentrant"} THEN old ELSE new

NoRet == [op |-> "none", arg |-> 0, kind |-> "none", val |-> 0, inv |-> FALSE]

Result(c, kind, val) ==
    [op |-> c.op, arg |-> Recorded(c.arg, 0), kind |-> kind, val |-> val,
     inv |-> Recorded(c.inv, FALSE)]

Top(t) == stack[t][Len(stack[t])]
Idle(t) == stack[t] = <<>>
Running(t, op, pc) ==
    /\ stack[t] # <<>>
    /\ Top(t).op = op
    /\ Top(t).pc = pc

Pop(s) == SubSeq(s, 1, Len(s) - 1)
SetTop(s, f) == [s EXCEPT ![Len(s)] = f]

\* Saturating increment of a ghost counter.
Bump(n) == IF n < NumThreads + 1 THEN n + 1 ELSE n

\* --------------------------------------------------- live guards
RECURSIVE FrameSum(_, _)
FrameSum(s, k) ==
    IF s = <<>> THEN 0 ELSE Head(s).g[k] + FrameSum(Tail(s), k)

RECURSIVE LiveIn(_, _)
LiveIn(S, k) ==
    IF S = {} THEN 0
    ELSE LET t == CHOOSE x \in S : TRUE
         IN  held[t][k] + FrameSum(stack[t], k) + LiveIn(S \ {t}, k)

\* Number of live guards of kind k: "oc" guards of the Once's inner Lock,
\* "lk" guards of the Lock, "rd"/"wr" read and write guards of the RwLock.
Live(k) == LiveIn(Threads, k)

\* --------------------------------------------------- Lock::lock
\* Mutant: the lock excludes nobody.
LockOutcomeNoExclusion(busy) == "granted"

\* Mutant: a busy lock is a panic in every configuration.
LockOutcomeChecked(busy) == IF ~busy THEN "granted" ELSE "panic"

\* Lock::lock on a lock that is busy or not: the RefCell's borrow_mut
\* panics when already borrowed (serial); the parking_lot Mutex blocks,
\* or, with ERROR_CHECKING, try_lock().expect(..) panics (parallel).
LockOutcome(busy) ==
    IF ~busy THEN "granted"
    ELSE IF mode = "serial" THEN "panic"
    ELSE IF ERROR_CHECKING THEN "panic"
    ELSE "block"

OnceLockOutcome == LockOutcome(Live("oc") > 0)

\* ================================================================ Once
\* pub struct Once<T>(Lock<Option<T>>, PhantomData<T>)

OnceOps == {"try_set", "try_set_same", "set", "init_locking",
            "init_nonlocking", "init_nonlocking_same", "try_get", "get",
            "borrow"}
InitOps == {"init_locking", "init_nonlocking", "init_nonlocking_same"}
LockOps == {"lock", "try_lock", "with_lock", "Lock::borrow",
            "Lock::borrow_mut"}
RwLockOps == {"read", "write", "try_write", "with_read_lock",
              "with_write_lock", "RwLock::borrow", "RwLock::borrow_mut"}
WithOps == {"with_lock", "with_read_lock", "with_write_lock"}

\* The operations a client program of each kind calls on the Once.
WorkloadOps(w) ==
    CASE w = "try_set" -> {"try_set"}
      [] w = "init_locking" -> {"init_locking"}
      [] w = "init_nonlocking" -> {"init_nonlocking", "try_get", "get"}
      [] w = "reentrant" -> OnceOps
      [] w = "set" -> {"set", "try_set"}
      [] w = "same" -> {"try_set_same", "init_nonlocking_same"}
      [] w = "get" -> {"try_get", "get", "borrow", "try_set"}
      [] w = "lock" -> LockOps
      [] w = "rwlock" -> RwLockOps
      [] OTHER -> OnceOps

\* The closures it passes: "pure" computes a value and returns it, "nested"
\* calls one operation of the same Once first.
WorkloadClosures(w) ==
    CASE w = "reentrant" -> {"pure", "nested"}
      [] OTHER -> {"pure"}

\* The values it passes and its closures compute: the reentrant program
\* uses one value, what it shows does not depend on the value stored.
WorkloadValues(w) ==
    CASE w = "reentrant" -> {1}
      [] OTHER -> Values

\* The threads of the client program whose closures are "nested": in the
\* reentrant program it is the main thread, the others pass pure closures.
NestingThreads == {1}

\* The frames a call of op pushes: set, get and borrow call straight into
\* try_set, try_get and get.
FramesFor(op, v, fk, lvl) ==
    CASE op = "set" ->
           <<Frame("set", "assert", v, "pure", lvl),
             Frame("try_set", "acquire", v, "pure", lvl)>>
      [] op = "get" ->
           <<Frame("get", "expect", 0, "pure", lvl),
             Frame("try_get", "acquire", 0, "pure", lvl)>>
      [] op = "borrow" ->
           <<Frame("borrow", "get", 0, "pure", lvl),
             Frame("get", "expect", 0, "pure", lvl),
             Frame("try_get", "acquire", 0, "pure", lvl)>>
      [] op = "try_get" -> <<Frame("try_get", "acquire", 0, "pure", lvl)>>
      [] op \in {"Lock::borrow", "Lock::borrow_mut"} ->
           <<Frame(op, "call", 0, "pure", lvl),
             Frame("lock", "acquire", 0, "pure", lvl)>>
      [] op = "RwLock::borrow" ->
           <<Frame(op, "call", 0, "pure", lvl),
             Frame("read", "acquire", 0, "pure", lvl)>>
      [] op = "RwLock::borrow_mut" ->
           <<Frame(op, "call", 0, "pure", lvl),
             Frame("write", "acquire", 0, "pure", lvl)>>
      [] op \in {"init_nonlocking", "init_nonlocking_same"} ->
           <<Frame(op, "check", v, fk, lvl)>>
      [] OTHER -> <<Frame(op, "acquire", v, fk, lvl)>>

\* A panic unwinds every frame of the call; their guards are dropped.
PanicOf(s) == [stack |-> <<>>, ret |-> Result(s[1], "panic", 0)]

\* The result r of a returning callee reaches its caller, the top of s:
\*   set:   assert!(self.try_set(value).is_none())
\*   get:   self.try_get().expect("value was not set")
\*   borrow: self.get();  Lock::borrow, borrow_mut: self.lock();
\*   RwLock::borrow: self.read();  RwLock::borrow_mut: self.write()
\*   init_nonlocking*: the tail call's result is the result
\*   a closure ignores the result of the operation it called.
RECURSIVE Deliver(_, _)
Deliver(s, r) ==
    IF s = <<>> THEN [stack |-> s, ret |-> r]
    ELSE LET c == s[Len(s)] IN
         CASE c.op = "set" ->
                IF r.kind = "None"
                THEN Deliver(Pop(s), Result(c, "unit", 0))
                ELSE PanicOf(s)
           [] c.op = "get" ->
                IF r.kind = "Some"
                THEN Deliver(Pop(s), Result(c, "Some", r.val))
                ELSE PanicOf(s)
           [] c.op \in {"borrow", "Lock::borrow", "Lock::borrow_mut",
                        "RwLock::borrow", "RwLock::borrow_mut"} ->
                Deliver(Pop(s), [r EXCEPT !.op = c.op])
           [] c.op \in {"init_nonlocking", "init_nonlocking_same"}
              /\ c.pc = "tail" ->
                Deliver(Pop(s), Result(c, r.kind, r.val))
           [] OTHER -> [stack |-> s, ret |-> NoRet]

\* The top frame of t returns r.
Finish(t, r) ==
    LET d == Deliver(Pop(stack[t]), r)
    IN  /\ stack' = [stack EXCEPT ![t] = d.stack]
        /\ ret' = [ret EXCEPT ![t] = d.ret]

\* The top frame of t panics.
Unwind(t) ==
    LET d == PanicOf(stack[t])
    IN  /\ stack' = [stack EXCEPT ![t] = d.stack]
        /\ ret' = [ret EXCEPT ![t] = d.ret]

\* The client code of thread t calls op.
ClientCall(t, op, v, fk) ==
    /\ Idle(t)
    /\ op \in WorkloadOps(workload)
    /\ fk \in WorkloadClosures(workload)
    /\ fk = "nested" => t \in NestingThreads
    /\ v \in WorkloadValues(workload) \cup {0}
    /\ stack' = [stack EXCEPT ![t] = FramesFor(op, v, fk, 0)]
    /\ ret' = [ret EXCEPT ![t] = NoRet]
    /\ UNCHANGED <<mode, workload, libVars, onceVars, lockVars>>

\* let mut lock = self.0.lock() at the head of an operation of the Once:
\* granted (the code up to the guard's drop then runs in one step, nothing
\* else can touch the cell meanwhile), or a panic; when the outcome is
\* "block" the thread stays where it is.
Granted(t) == OnceLockOutcome = "granted"

LockPanics(t) ==
    /\ OnceLockOutcome = "panic"
    /\ Unwind(t)

WriterAfter(t) ==
    Recorded([t |-> t, lvl |-> Top(t).lvl, n |-> Bump(writer.n)], writer)

\* ---- try_set (sync.rs:347-354)
\* Mutant: the is_some() test is missing, every call stores.
TrySetResultAlwaysStores(cell, value) ==
    [cell |-> Some(value), kind |-> "None", val |-> 0]

\* Mutant: a rejected value is not handed back.
TrySetResultDrops(cell, value) ==
    IF cell # None
    THEN [cell |-> cell, kind |-> "None", val |-> 0]
    ELSE [cell |-> Some(value), kind |-> "None", val |-> 0]

\* Mutant: a value equal to the stored one is taken as a success.
TrySetResultAcceptsEqual(cell, value) ==
    IF cell = None THEN [cell |-> Some(value), kind |-> "None", val |-> 0]
    ELSE IF cell = Some(value) THEN [cell |-> cell, kind |-> "None", val |-> 0]
    ELSE [cell |-> cell, kind |-> "Some", val |-> value]

TrySetResult(cell, value) ==
    IF cell # None
    THEN [cell |-> cell, kind |-> "Some", val |-> value]
    ELSE [cell |-> Some(value), kind |-> "None", val |-> 0]

Once_try_set(t) ==
    \/ \E v \in Values : ClientCall(t, "try_set", v, "pure")
    \/ /\ Running(t, "try_set", "acquire")
       /\ Granted(t)
       /\ LET r == TrySetResult(onceVal, Top(t).arg) IN
            /\ onceVal' = r.cell
            /\ writer' = IF r.cell # onceVal THEN WriterAfter(t) ELSE writer
            /\ hist' = Recorded([hist EXCEPT
                          !.first = IF @ = 0 THEN t ELSE @,
                          !.nNone = IF r.kind = "None" THEN Bump(@) ELSE @],
                          hist)
            /\ Finish(t, Result(Top(t), r.kind, r.val))
       /\ UNCHANGED <<mode, workload, libVars, finv, lockVars>>
    \/ /\ Running(t, "try_set", "acquire")
       /\ LockPanics(t)
       /\ UNCHANGED <<mode, workload, libVars, onceVars, lockVars>>

\* ---- try_set_same (sync.rs:361-369)
\* Mutant: a different value replaces the stored one instead of failing.
TrySetSameResultOverwrites(cell, value) ==
    IF cell # None /\ cell[1] = value
    THEN [cell |-> cell, kind |-> "Some", val |-> value]
    ELSE [cell |-> Some(value), kind |-> "None", val |-> 0]

\* Mutant: the assert!(*inner == value) is missing.
TrySetSameResultNoAssert(cell, value) ==
    IF cell # None
    THEN [cell |-> cell, kind |-> "Some", val |-> value]
    ELSE [cell |-> Some(value), kind |-> "None", val |-> 0]

TrySetSameResult(cell, value) ==
    IF cell # None
    THEN IF cell[1] = value
         THEN [cell |-> cell, kind |-> "Some", val |-> value]
         ELSE [cell |-> cell, kind |-> "panic", val |-> 0]
    ELSE [cell |-> Some(value), kind |-> "None", val |-> 0]

Once_try_set_same(t) ==
    \/ \E v \in Values : ClientCall(t, "try_set_same", v, "pure")
    \/ /\ Running(t, "try_set_same", "acquire")
       /\ Granted(t)
       /\ LET r == TrySetSameResult(onceVal, Top(t).arg) IN
            /\ onceVal' = r.cell
            /\ writer' = IF r.cell # onceVal THEN WriterAfter(t) ELSE writer
            /\ IF r.kind = "panic"
               THEN Unwind(t)
               ELSE Finish(t, Result(Top(t), r.kind, r.val))
       /\ UNCHANGED <<mode, workload, libVars, hist, finv, lockVars>>
    \/ /\ Running(t, "try_set_same", "acquire")
       /\ LockPanics(t)
       /\ UNCHANGED <<mode, workload, libVars, onceVars, lockVars>>

\* ---- set (sync.rs:373-375): the assert is applied when try_set returns.
Once_set(t) ==
    \E v \in Values : ClientCall(t, "set", v, "pure")

\* ---- init_locking (sync.rs:382-389)
\* Mutant: the guard is dropped before f is called.
CallFUnlocked(c) == [c EXCEPT !.pc = "f", !.inv = TRUE]

\* *lock = Some(f()): f is called while the guard `lock` is live.
CallFLocked(c) == [c EXCEPT !.pc = "f", !.inv = TRUE, !.g.oc = 1]

Once_init_locking(t) ==
    \/ \E v \in Values, fk \in {"pure", "nested"} :
          ClientCall(t, "init_locking", v, fk)
    \/ /\ Running(t, "init_locking", "acquire")
       /\ Granted(t)
       /\ IF onceVal # None
          THEN /\ Finish(t, Result(Top(t), "false", 0))
               /\ hist' = hist
          ELSE \* f is called; the frame's guard stays live meanwhile
               /\ stack' = [stack EXCEPT ![t] =
                     SetTop(@, CallFLocked(Top(t)))]
               /\ hist' = IF Top(t).fk = "pure"
                          THEN Recorded([hist EXCEPT !.fLock = Bump(@)], hist)
                          ELSE hist
               /\ UNCHANGED ret
       /\ UNCHANGED <<mode, workload, libVars, onceVal, writer, finv, lockVars>>
    \/ /\ Running(t, "init_locking", "acquire")
       /\ LockPanics(t)
       /\ UNCHANGED <<mode, workload, libVars, onceVars, lockVars>>
    \/ \* f has returned its value: *lock = Some(f()); true
       /\ \/ Running(t, "init_locking", "f") /\ Top(t).fk = "pure"
          \/ Running(t, "init_locking", "f_after")
       /\ onceVal' = Some(Top(t).arg)
       /\ writer' = WriterAfter(t)
       /\ hist' = Recorded([hist EXCEPT !.nTrue = Bump(@)], hist)
       /\ Finish(t, Result(Top(t), "true", 0))
       /\ UNCHANGED <<mode, workload, libVars, finv, lockVars>>

\* ---- init_nonlocking (sync.rs:400-406), init_nonlocking_same (418-424)
\* Mutant: the is_some() test is missing, f always runs.
NonlockingCheckSkipped(t) ==
    /\ stack' = [stack EXCEPT ![t] =
          SetTop(@, [Top(t) EXCEPT !.pc = "f", !.inv = TRUE])]
    /\ finv' = IF Top(t).fk = "pure"
               THEN Recorded([finv EXCEPT ![t] = Bump(@)], finv) ELSE finv
    /\ UNCHANGED ret

\* if self.0.lock().is_some(): the guard is a temporary of the condition,
\* dropped before either branch runs.
NonlockingCheck(t) ==
    \/ /\ Granted(t)
       /\ IF onceVal # None
          THEN /\ Finish(t, Result(Top(t), "None", 0))
               /\ finv' = finv
          ELSE /\ stack' = [stack EXCEPT ![t] =
                     SetTop(@, [Top(t) EXCEPT !.pc = "f", !.inv = TRUE])]
               /\ finv' = IF Top(t).fk = "pure"
                          THEN Recorded([finv EXCEPT ![t] = Bump(@)], finv)
                          ELSE finv
               /\ UNCHANGED ret
    \/ /\ LockPanics(t)
       /\ finv' = finv

\* self.try_set(f()) / self.try_set_same(f()), once f has returned.
NonlockingTail(t, setter) ==
    /\ \/ Top(t).pc = "f" /\ Top(t).fk = "pure"
       \/ Top(t).pc = "f_after"
    /\ stack' = [stack EXCEPT ![t] =
          Append(SetTop(@, [Top(t) EXCEPT !.pc = "tail"]),
                 Frame(setter, "acquire", Top(t).arg, "pure", Top(t).lvl))]
    /\ UNCHANGED ret

Once_init_nonlocking(t) ==
    \/ \E v \in Values, fk \in {"pure", "nested"} :
          ClientCall(t, "init_nonlocking", v, fk)
    \/ /\ Running(t, "init_nonlocking", "check")
       /\ NonlockingCheck(t)
       /\ UNCHANGED <<mode, workload, libVars, onceVal, writer, hist, lockVars>>
    \/ /\ stack[t] # <<>>
       /\ Top(t).op = "init_nonlocking"
       /\ NonlockingTail(t, "try_set")
       /\ UNCHANGED <<mode, workload, libVars, onceVars, lockVars>>

Once_init_nonlocking_same(t) ==
    \/ \E v \in Values, fk \in {"pure", "nested"} :
          ClientCall(t, "init_nonlocking_same", v, fk)
    \/ /\ Running(t, "init_nonlocking_same", "check")
       /\ NonlockingCheck(t)
       /\ UNCHANGED <<mode, workload, libVars, onceVal, writer, hist, lockVars>>
    \/ /\ stack[t] # <<>>
       /\ Top(t).op = "init_nonlocking_same"
       /\ NonlockingTail(t, "try_set_same")
       /\ UNCHANGED <<mode, workload, libVars, onceVars, lockVars>>

\* ---- a "nested" closure f calls an operation of the same Once; the
\* closure it passes on, if any, is pure.
Once_closure(t) ==
    /\ stack[t] # <<>>
    /\ Top(t).op \in InitOps
    /\ Top(t).pc = "f"
    /\ Top(t).fk = "nested"
    /\ \E op \in OnceOps, v \in WorkloadValues(workload) :
          stack' = [stack EXCEPT ![t] =
              SetTop(@, [Top(t) EXCEPT !.pc = "f_after"])
                \o FramesFor(op, v, "pure", Top(t).lvl + 1)]
    /\ UNCHANGED <<mode, workload, libVars, ret, onceVars, lockVars>>

\* ---- try_get (sync.rs:428-436): let lock = &*self.0.lock() keeps the
\* guard until the function returns.
\* Mutant: try_get does not see the stored value.
TryGetResultEmpty(cell) == [kind |-> "None", val |-> 0]

TryGetResult(cell) ==
    IF cell # None
    THEN [kind |-> "Some", val |-> cell[1]]
    ELSE [kind |-> "None", val |-> 0]

Once_try_get(t) ==
    \/ ClientCall(t, "try_get", 0, "pure")
    \/ /\ Running(t, "try_get", "acquire")
       /\ Granted(t)
       /\ LET r == TryGetResult(onceVal) IN
            Finish(t, Result(Top(t), r.kind, r.val))
       /\ UNCHANGED <<mode, workload, libVars, onceVars, lockVars>>
    \/ /\ Running(t, "try_get", "acquire")
       /\ LockPanics(t)
       /\ UNCHANGED <<mode, workload, libVars, onceVars, lockVars>>

\* ---- get (sync.rs:440-442), borrow (446-448): the expect is applied
\* when try_get returns.
Once_get(t) == ClientCall(t, "get", 0, "pure")

Once_borrow(t) == ClientCall(t, "borrow", 0, "pure")

\* ======================================================== Lock, RwLock
\* pub struct Lock<T>(InnerLock<T>);  pub struct RwLock<T>(InnerRwLock<T>)

HeldTotal(t) == held[t].lk + held[t].rd + held[t].wr

\* The client code of thread t calls an operation of the Lock or RwLock.
LockCall(t, op, v, fk) ==
    /\ HeldTotal(t) < MaxGuards
    /\ ClientCall(t, op, v, fk)

\* The outcome of an operation of a Lock or RwLock.
Outcome(c, kind, val) ==
    [op |-> c.op, arg |-> 0, kind |-> kind, val |-> val, inv |-> FALSE]

\* The top frame of t returns a guard of kind k: the guard moves to the
\* caller, the client code (or a frame that made the call).
Grant(t, k) ==
    LET d == Deliver(Pop(stack[t]), Outcome(Top(t), "guard", 0)) IN
    IF d.stack = <<>>
    THEN /\ stack' = [stack EXCEPT ![t] = <<>>]
         /\ held' = [held EXCEPT ![t][k] = @ + 1]
         /\ ret' = [ret EXCEPT ![t] = d.ret]
    ELSE /\ stack' = [stack EXCEPT ![t] =
               SetTop(d.stack,
                      [d.stack[Len(d.stack)] EXCEPT !.g[k] = @ + 1])]
         /\ held' = held
         /\ ret' = [ret EXCEPT ![t] = d.ret]

\* The top frame of t returns r, which is no guard.
Return(t, r) ==
    /\ Finish(t, r)
    /\ held' = held

\* Mutant: the guards of the unwound frames are not dropped.
FailLeaks(t) ==
    /\ stack' = [stack EXCEPT ![t] = <<>>]
    /\ ret' = [ret EXCEPT ![t] = Outcome(stack[t][1], "panic", 0)]
    /\ held' = [held EXCEPT ![t] =
                  [k \in DOMAIN NoG |-> held[t][k] + FrameSum(stack[t], k)]]

\* The top frame of t panics: the frames of the call are unwound and their
\* guards dropped; the guards the client code owns stay.
Fail(t) ==
    /\ stack' = [stack EXCEPT ![t] = <<>>]
    /\ ret' = [ret EXCEPT ![t] = Outcome(stack[t][1], "panic", 0)]
    /\ held' = held

\* ---- Lock::try_lock (sync.rs:470-480): parking_lot's try_lock, or
\* RefCell's try_borrow_mut().ok(): a guard exactly when no guard is live.
\* Mutant: try_lock hands out a guard whatever the state of the lock.
TryLockGrantsAlways(live) == TRUE

TryLockGrants(live) == live = 0

Lock_try_lock(t) ==
    \/ LockCall(t, "try_lock", 0, "pure")
    \/ /\ Running(t, "try_lock", "acquire")
       /\ IF TryLockGrants(Live("lk"))
          THEN Grant(t, "lk")
          ELSE Return(t, Outcome(Top(t), "None", 0))
       /\ UNCHANGED <<mode, workload, libVars, onceVars, lockVal, rwVal>>

\* ---- Lock::lock (sync.rs:482-496)
Lock_lock(t) ==
    \/ LockCall(t, "lock", 0, "pure")
    \/ /\ Running(t, "lock", "acquire")
       /\ \/ LockOutcome(Live("lk") > 0) = "granted" /\ Grant(t, "lk")
          \/ LockOutcome(Live("lk") > 0) = "panic" /\ Fail(t)
       /\ UNCHANGED <<mode, workload, libVars, onceVars, lockVal, rwVal>>

\* ---- the closure f of a with_* call: it runs while the frame's guard is
\* live; it returns, or it panics partway.
ClosureDone(t) ==
    \/ Top(t).pc = "f" /\ Top(t).fk = "pure"
    \/ Top(t).pc = "f_after"

ClosureRunning(t) == Top(t).pc \in {"f", "f_after"}

\* ---- Lock::with_lock (sync.rs:498-501): f(&mut *self.lock()); the guard
\* is a temporary of the call expression, dropped when f returns or unwinds.
Lock_with_lock(t) ==
    \/ \E v \in Values : LockCall(t, "with_lock", v, "pure")
    \/ /\ Running(t, "with_lock", "acquire")
       /\ \/ /\ LockOutcome(Live("lk") > 0) = "granted"
             /\ stack' = [stack EXCEPT ![t] =
                   SetTop(@, [Top(t) EXCEPT !.pc = "f", !.g.lk = 1])]
             /\ UNCHANGED <<ret, held>>
          \/ LockOutcome(Live("lk") > 0) = "panic" /\ Fail(t)
       /\ UNCHANGED <<mode, workload, libVars, onceVars, lockVal, rwVal>>
    \/ /\ stack[t] # <<>> /\ Top(t).op = "with_lock"
       /\ ClosureDone(t)
       /\ lockVal' = Top(t).arg
       /\ Return(t, Outcome(Top(t), "unit", 0))
       /\ UNCHANGED <<mode, workload, libVars, onceVars, rwVal>>
    \/ /\ stack[t] # <<>> /\ Top(t).op = "with_lock"
       /\ ClosureRunning(t)
       /\ lockVal' \in {lockVal, Top(t).arg}
       /\ Fail(t)
       /\ UNCHANGED <<mode, workload, libVars, onceVars, rwVal>>

\* ---- Lock::borrow, Lock::borrow_mut (sync.rs:503-511): self.lock()
Lock_borrow(t) == LockCall(t, "Lock::borrow", 0, "pure")

Lock_borrow_mut(t) == LockCall(t, "Lock::borrow_mut", 0, "pure")

\* ---- RwLock::read (sync.rs:548-562): RefCell::borrow panics while a
\* mutable borrow is live; parking_lot's read waits while a writer is in
\* (whether it also waits behind a queued writer is the primitive's policy:
\* the step is enabled, not forced).
ReadOutcome(writers) == LockOutcome(writers > 0)

RwLock_read(t) ==
    \/ LockCall(t, "read", 0, "pure")
    \/ /\ Running(t, "read", "acquire")
       /\ \/ ReadOutcome(Live("wr")) = "granted" /\ Grant(t, "rd")
          \/ ReadOutcome(Live("wr")) = "panic" /\ Fail(t)
       /\ UNCHANGED <<mode, workload, libVars, onceVars, lockVal, rwVal>>

\* ---- RwLock::write (sync.rs:581-595)
\* Mutant: a writer only waits for writers.
WriteOutcomeIgnoresReaders(readers, writers) == LockOutcome(writers > 0)

WriteOutcome(readers, writers) == LockOutcome(readers + writers > 0)

RwLock_write(t) ==
    \/ LockCall(t, "write", 0, "pure")
    \/ /\ Running(t, "write", "acquire")
       /\ \/ WriteOutcome(Live("rd"), Live("wr")) = "granted"
             /\ Grant(t, "wr")
          \/ WriteOutcome(Live("rd"), Live("wr")) = "panic" /\ Fail(t)
       /\ UNCHANGED <<mode, workload, libVars, onceVars, lockVal, rwVal>>

\* ---- RwLock::try_write (sync.rs:569-579)
\* Mutant: try_write only looks for writers.
TryWriteGrantsIgnoresReaders(readers, writers) == writers = 0

TryWriteGrants(readers, writers) == readers + writers = 0

RwLock_try_write(t) ==
    \/ LockCall(t, "try_write", 0, "pure")
    \/ /\ Running(t, "try_write", "acquire")
       /\ IF TryWriteGrants(Live("rd"), Live("wr"))
          THEN Grant(t, "wr")
          ELSE Return(t, Outcome(Top(t), "Err", 0))
       /\ UNCHANGED <<mode, workload, libVars, onceVars, lockVal, rwVal>>

\* ---- RwLock::with_read_lock (sync.rs:564-567): f(&*self.read())
RwLock_with_read_lock(t) ==
    \/ LockCall(t, "with_read_lock", 0, "pure")
    \/ /\ Running(t, "with_read_lock", "acquire")
       /\ \/ /\ ReadOutcome(Live("wr")) = "granted"
             /\ stack' = [stack EXCEPT ![t] =
                   SetTop(@, [Top(t) EXCEPT !.pc = "f", !.g.rd = 1])]
             /\ UNCHANGED <<ret, held>>
          \/ ReadOutcome(Live("wr")) = "panic" /\ Fail(t)
       /\ UNCHANGED <<mode, workload, libVars, onceVars, lockVal, rwVal>>
    \/ /\ stack[t] # <<>> /\ Top(t).op = "with_read_lock"
       /\ ClosureDone(t)
       /\ Return(t, Outcome(Top(t), "Some", rwVal))
       /\ UNCHANGED <<mode, workload, libVars, onceVars, lockVal, rwVal>>
    \/ /\ stack[t] # <<>> /\ Top(t).op = "with_read_lock"
       /\ ClosureRunning(t)
       /\ Fail(t)
       /\ UNCHANGED <<mode, workload, libVars, onceVars, lockVal, rwVal>>

\* ---- RwLock::with_write_lock (sync.rs:597-600): f(&mut *self.write())
RwLock_with_write_lock(t) ==
    \/ \E v \in Values : LockCall(t, "with_write_lock", v, "pure")
    \/ /\ Running(t, "with_write_lock", "acquire")
       /\ \/ /\ WriteOutcome(Live("rd"), Live("wr")) = "granted"
             /\ stack' = [stack EXCEPT ![t] =
                   SetTop(@, [Top(t) EXCEPT !.pc = "f", !.g.wr = 1])]
             /\ UNCHANGED <<ret, held>>
          \/ WriteOutcome(Live("rd"), Live("wr")) = "panic" /\ Fail(t)
       /\ UNCHANGED <<mode, workload, libVars, onceVars, lockVal, rwVal>>
    \/ /\ stack[t] # <<>> /\ Top(t).op = "with_write_lock"
       /\ ClosureDone(t)
       /\ rwVal' = Top(t).arg
       /\ Return(t, Outcome(Top(t), "unit", 0))
       /\ UNCHANGED <<mode, workload, libVars, onceVars, lockVal>>
    \/ /\ stack[t] # <<>> /\ Top(t).op = "with_write_lock"
       /\ ClosureRunning(t)
       /\ rwVal' \in {rwVal, Top(t).arg}
       /\ Fail(t)
       /\ UNCHANGED <<mode, workload, libVars, onceVars, lockVal>>

\* ---- RwLock::borrow, RwLock::borrow_mut (sync.rs:602-610)
RwLock_borrow(t) == LockCall(t, "RwLock::borrow", 0, "pure")

RwLock_borrow_mut(t) == LockCall(t, "RwLock::borrow_mut", 0, "pure")

\* ---- a guard the client code owns goes out of scope.
Guard_drop(t) ==
    /\ Idle(t)
    /\ \E k \in {"lk", "rd", "wr"} :
          /\ held[t][k] > 0
          /\ held' = [held EXCEPT ![t][k] = @ - 1]
    /\ UNCHANGED <<mode, workload, libVars, stack, ret, onceVars, lockVal,
                   rwVal>>

\* =========================================================== OneThread
\* #[derive(Copy, Clone, Hash, Debug, Eq, PartialEq)]
\* pub struct OneThread<T> { #[cfg(parallel_queries)] thread: ThreadId,
\*                           inner: T }
\* unsafe impl Sync / Send: every thread can reach every wrapper.

\* thread::current().id(); the field does not exist in the serial build.
ThreadId(t) == IF mode = "parallel" THEN t ELSE 0

\* The outcome of an operation that is a single step.
OpResult(op, kind, val) ==
    [op |-> op, arg |-> 0, kind |-> kind, val |-> val, inv |-> FALSE]

\* Mutant: the assertion is compiled out in both builds.
CheckNever(w, t) == TRUE

\* fn check(&self) (sync.rs:636-639): assert_eq!(thread::current().id(),
\* self.thread) in the parallel build, nothing in the serial one.
Check(w, t) == mode = "serial" \/ ThreadId(t) = w.thread

LibStep(t, r) ==
    /\ Idle(t)
    /\ ret' = [ret EXCEPT ![t] = r]
    /\ UNCHANGED <<mode, workload, coreVars>>

\* A step of an operation of a OneThread. Only the outcome of the latest
\* call is kept: the callers have used the earlier ones.
OneThreadStep(t, r) ==
    /\ Idle(t)
    /\ ret' = [u \in Threads |-> IF u = t THEN r ELSE NoRet]
    /\ UNCHANGED <<mode, workload, coreVars>>
    /\ UNCHANGED exceptOneThread

\* OneThread::new (sync.rs:642-648)
OneThread_new(t) ==
    /\ workload = "onethread"
    /\ oneThread = <<>>
    /\ \E v \in Values :
          oneThread' = <<[thread |-> ThreadId(t), inner |-> v, live |-> TRUE]>>
    /\ OneThreadStep(t, OpResult("OneThread::new", "unit", 0))

\* OneThread::into_inner (sync.rs:651-654): value is moved in, so the
\* wrapper is gone whether check() passes or panics.
OneThread_into_inner(t) ==
    \E i \in DOMAIN oneThread :
       /\ oneThread[i].live
       /\ oneThread' = [oneThread EXCEPT ![i].live = FALSE]
       /\ OneThreadStep(t, IF Check(oneThread[i], t)
                     THEN OpResult("into_inner", "value", oneThread[i].inner)
                     ELSE OpResult("into_inner", "panic", 0))

\* Deref::deref (sync.rs:660-663)
OneThread_deref(t) ==
    \E i \in DOMAIN oneThread :
       /\ oneThread[i].live
       /\ UNCHANGED oneThread
       /\ OneThreadStep(t, IF Check(oneThread[i], t)
                     THEN OpResult("deref", "value", oneThread[i].inner)
                     ELSE OpResult("deref", "panic", 0))

\* DerefMut::deref_mut (sync.rs:667-670), the caller writing v through the
\* reference it gets.
OneThread_deref_mut(t) ==
    \E i \in DOMAIN oneThread, v \in Values :
       /\ oneThread[i].live
       /\ IF Check(oneThread[i], t)
          THEN /\ oneThread' = [oneThread EXCEPT ![i].inner = v]
               /\ OneThreadStep(t, OpResult("deref_mut", "value",
                                            oneThread[i].inner))
          ELSE /\ UNCHANGED oneThread
               /\ OneThreadStep(t, OpResult("deref_mut", "panic", 0))

\* derive(Copy, Clone): both fields are copied, check() is not called.
OneThread_clone(t) ==
    \E i \in DOMAIN oneThread :
       /\ oneThread[i].live
       /\ Len(oneThread) < MaxWrappers
       /\ oneThread' = Append(oneThread, oneThread[i])
       /\ OneThreadStep(t, OpResult("clone", "value", oneThread[i].inner))

\* derive(Eq, PartialEq): the fields are compared, check() is not called.
OneThread_eq(t) ==
    \E i \in DOMAIN oneThread, j \in DOMAIN oneThread :
       /\ oneThread[i].live /\ oneThread[j].live
       /\ UNCHANGED oneThread
       /\ OneThreadStep(t, OpResult("eq",
                      IF /\ oneThread[i].thread = oneThread[j].thread
                         /\ oneThread[i].inner = oneThread[j].inner
                      THEN "true" ELSE "false",
                      oneThread[i].inner))

\* derive(Hash): the fields are fed to the hasher, check() is not called.
OneThread_hash(t) ==
    \E i \in DOMAIN oneThread :
       /\ oneThread[i].live
       /\ UNCHANGED oneThread
       /\ OneThreadStep(t, OpResult("hash", "value", oneThread[i].inner))

\* derive(Debug): the fields are formatted, check() is not called.
OneThread_fmt(t) ==
    \E i \in DOMAIN oneThread :
       /\ oneThread[i].live
       /\ UNCHANGED oneThread
       /\ OneThreadStep(t, OpResult("fmt", "value", oneThread[i].inner))

\* ========================================================= WorkerLocal
\* cfg(not(parallel_queries)): pub struct WorkerLocal<T>(OneThread<T>)

\* The factory closures given to WorkerLocal::new: |i| i + k, so that
\* Factory(0, _) is |i| i.
Factories == 0..MaxVal
Factory(k, i) == i + k

\* Mutant: the factory is called for a pool of two workers.
WorkerLocalNewPerWorker(k, t) ==
    [factory |-> k, calls |-> <<0, 1>>, live |-> TRUE,
     cell |-> [thread |-> ThreadId(t), inner |-> Factory(k, 1), live |-> TRUE]]

\* WorkerLocal::new (sync.rs:166-168): WorkerLocal(OneThread::new(f(0))).
\* calls lists the indices f has been called with.
WorkerLocalNew(k, t) ==
    [factory |-> k, calls |-> <<0>>, live |-> TRUE,
     cell |-> [thread |-> ThreadId(t), inner |-> Factory(k, 0), live |-> TRUE]]

\* A step of an operation on the i-th WorkerLocal.
WorkerLocalStep(t, i, r) ==
    /\ LibStep(t, [r EXCEPT !.arg = i])
    /\ UNCHANGED exceptWorkerLocal

WorkerLocal_new(t) ==
    /\ workload = "workerlocal"
    /\ Len(workerLocal) < MaxLocals
    /\ \E k \in Factories :
          workerLocal' = Append(workerLocal, WorkerLocalNew(k, t))
    /\ WorkerLocalStep(t, Len(workerLocal) + 1,
                       OpResult("WorkerLocal::new", "unit", 0))

\* Deref for WorkerLocal (sync.rs:177-184): &*self.0
WorkerLocal_deref(t) ==
    \E i \in DOMAIN workerLocal :
       /\ workerLocal[i].live
       /\ UNCHANGED workerLocal
       /\ WorkerLocalStep(t, i,
             IF Check(workerLocal[i].cell, t)
             THEN OpResult("WorkerLocal::deref", "value",
                           workerLocal[i].cell.inner)
             ELSE OpResult("WorkerLocal::deref", "panic", 0))

\* WorkerLocal::into_inner (sync.rs:172-174):
\* vec![OneThread::into_inner(self.0)]
WorkerLocal_into_inner(t) ==
    \E i \in DOMAIN workerLocal :
       /\ workerLocal[i].live
       /\ workerLocal' = [workerLocal EXCEPT ![i].live = FALSE]
       /\ WorkerLocalStep(t, i,
             IF Check(workerLocal[i].cell, t)
             THEN OpResult("WorkerLocal::into_inner", "value",
                           <<workerLocal[i].cell.inner>>)
             ELSE OpResult("WorkerLocal::into_inner", "panic", <<>>))

\* ================================================================ join
\* serial build: pub use self::serial_join as join (sync.rs:134);
\* parallel build: pub use rayon::{join, scope} (sync.rs:279), which may
\* run the two closures at the same time and returns when both are done.

\* A closure that returns v when called.
Closure(v) == [v |-> v, pc |-> "ready", calls |-> 0, res |-> None]

\* Mutant: oper_b does not wait for oper_a in the serial build either.
MayStartBAnytime(j) == TRUE

\* (oper_a(), oper_b()): the tuple's fields are evaluated left to right.
MayStartB(j) == mode = "parallel" \/ j.a.pc = "done"

JoinResult(j) == <<j.a.res[1], j.b.res[1]>>

JoinStep(j) ==
    /\ joinSt' = j
    /\ UNCHANGED <<mode, workload, coreVars, exceptJoin>>

\* join(oper_a, oper_b) is called by thread t.
Join_call(t) ==
    /\ workload = "join"
    /\ joinSt = <<>>
    /\ Idle(t)
    /\ \E va \in Values, vb \in Values :
          JoinStep([caller |-> t, a |-> Closure(va), b |-> Closure(vb),
                    log |-> <<>>, returned |-> FALSE])
    /\ ret' = [ret EXCEPT ![t] = NoRet]

\* oper_a() starts, and returns its value.
Join_oper_a ==
    /\ joinSt # <<>>
    /\ UNCHANGED ret
    /\ \/ /\ joinSt.a.pc = "ready"
          /\ JoinStep([joinSt EXCEPT !.a.pc = "running",
                                     !.a.calls = @ + 1,
                                     !.log = Append(@, "a starts")])
       \/ /\ joinSt.a.pc = "running"
          /\ JoinStep([joinSt EXCEPT !.a.pc = "done",
                                     !.a.res = Some(joinSt.a.v),
                                     !.log = Append(@, "a ends")])

\* oper_b() starts, and returns its value.
Join_oper_b ==
    /\ joinSt # <<>>
    /\ UNCHANGED ret
    /\ \/ /\ joinSt.b.pc = "ready"
          /\ MayStartB(joinSt)
          /\ JoinStep([joinSt EXCEPT !.b.pc = "running",
                                     !.b.calls = @ + 1,
                                     !.log = Append(@, "b starts")])
       \/ /\ joinSt.b.pc = "running"
          /\ JoinStep([joinSt EXCEPT !.b.pc = "done",
                                     !.b.res = Some(joinSt.b.v),
                                     !.log = Append(@, "b ends")])

\* join returns the pair of results to its caller.
Join_return(t) ==
    /\ joinSt # <<>>
    /\ ~joinSt.returned
    /\ joinSt.caller = t
    /\ joinSt.a.pc = "done" /\ joinSt.b.pc = "done"
    /\ JoinStep([joinSt EXCEPT !.returned = TRUE,
                               !.log = Append(@, "join returns")])
    /\ ret' = [ret EXCEPT ![t] = OpResult("join", "value", JoinResult(joinSt))]

\* =============================================================== scope
\* serial build: pub use self::serial_scope as scope (sync.rs:135);
\* parallel build: rayon::scope (sync.rs:279), which queues the spawned
\* tasks, runs them on the pool and returns when all of them are done.
\* Unit 0 is the closure f given to scope, unit i > 0 the i-th task spawned.

UnitRuns(s, p) ==
    IF p = 0 THEN s.body = "running" ELSE s.tasks[p].st = "running"

\* The unit whose code is executing in the serial build: the innermost of
\* the nested calls f -> g -> g' ...
Current(s) ==
    LET R == {i \in DOMAIN s.tasks : s.tasks[i].st = "running"}
    IN  IF R = {} THEN 0 ELSE CHOOSE i \in R : \A j \in R : j <= i

\* Unit p may take a step.
MayAct(s, p) == UnitRuns(s, p) /\ (mode = "serial" => p = Current(s))

\* Mutant: SerialScope::spawn drops the closure without calling it.
SpawnedTaskDropped(p) ==
    IF mode = "serial"
    THEN [parent |-> p, st |-> "done", runs |-> 0]
    ELSE [parent |-> p, st |-> "spawned", runs |-> 0]

\* SerialScope::spawn (sync.rs:47-51) is f(self): the task is running as
\* soon as it is spawned; rayon's spawn queues it.
SpawnedTask(p) ==
    IF mode = "serial"
    THEN [parent |-> p, st |-> "running", runs |-> 1]
    ELSE [parent |-> p, st |-> "spawned", runs |-> 0]

\* serial_scope (sync.rs:54-58) returns what f returns; rayon's scope
\* also waits for the tasks.
ScopeMayReturn(s) ==
    /\ s.body = "done"
    /\ mode = "parallel" => \A i \in DOMAIN s.tasks : s.tasks[i].st = "done"

ScopeStep(s) ==
    /\ scopeSt' = s
    /\ UNCHANGED <<mode, workload, coreVars, exceptScope>>

\* scope(f) is called by thread t; f will return v.
Scope_call(t) ==
    /\ workload = "scope"
    /\ scopeSt = <<>>
    /\ Idle(t)
    /\ \E v \in Values :
          ScopeStep([caller |-> t, v |-> v, body |-> "running",
                     tasks |-> <<>>, started |-> <<>>, returned |-> FALSE])
    /\ ret' = [ret EXCEPT ![t] = NoRet]

\* A running unit calls spawn(g) on the scope handle.
Scope_spawn ==
    /\ scopeSt # <<>>
    /\ Len(scopeSt.tasks) < MaxTasks
    /\ UNCHANGED ret
    /\ \E p \in 0..Len(scopeSt.tasks) :
          /\ MayAct(scopeSt, p)
          /\ LET task == SpawnedTask(p)
                 id == Len(scopeSt.tasks) + 1
             IN  ScopeStep([scopeSt EXCEPT
                    !.tasks = Append(@, task),
                    !.started = IF task.st = "running"
                                THEN Append(@, id) ELSE @])

\* The pool starts a queued task (parallel build).
Scope_start ==
    /\ scopeSt # <<>>
    /\ UNCHANGED ret
    /\ \E i \in DOMAIN scopeSt.tasks :
          /\ scopeSt.tasks[i].st = "spawned"
          /\ ScopeStep([scopeSt EXCEPT
                 !.tasks[i].st = "running",
                 !.tasks[i].runs = @ + 1,
                 !.started = Append(@, i)])

\* A task returns.
Scope_task_done ==
    /\ scopeSt # <<>>
    /\ UNCHANGED ret
    /\ \E i \in DOMAIN scopeSt.tasks :
          /\ MayAct(scopeSt, i)
          /\ ScopeStep([scopeSt EXCEPT !.tasks[i].st = "done"])

\* f returns.
Scope_body_done ==
    /\ scopeSt # <<>>
    /\ MayAct(scopeSt, 0)
    /\ UNCHANGED ret
    /\ ScopeStep([scopeSt EXCEPT !.body = "done"])

\* scope returns f's result to its caller.
Scope_return(t) ==
    /\ scopeSt # <<>>
    /\ ~scopeSt.returned
    /\ scopeSt.caller = t
    /\ ScopeMayReturn(scopeSt)
    /\ ScopeStep([scopeSt EXCEPT !.returned = TRUE])
    /\ ret' = [ret EXCEPT ![t] = OpResult("scope", "value", scopeSt.v)]

\* ============================================================== Atomic
\* cfg(not(parallel_queries)): pub struct Atomic<T: Copy>(Cell<T>)
AtomicVals == 0..MaxAtomic

\* A step of an operation of the Atomic; args are the call's arguments and
\* the value the cell held when it was called.
AtomicStep(t, cell, args, r) ==
    /\ workload = "atomic"
    /\ atomic' = cell
    /\ LibStep(t, [r EXCEPT !.arg = args])
    /\ UNCHANGED exceptAtomic

\* Atomic::new (sync.rs:84-86): the program makes the Atomic anew.
Atomic_new(t) ==
    \E v \in AtomicVals :
       AtomicStep(t, v, [val |-> v], OpResult("Atomic::new", "unit", 0))

\* Atomic::load (sync.rs:94-96)
Atomic_load(t) ==
    AtomicStep(t, atomic, [before |-> atomic],
               OpResult("load", "value", atomic))

\* Atomic::store (sync.rs:98-100)
Atomic_store(t) ==
    \E v \in AtomicVals :
       AtomicStep(t, v, [before |-> atomic, val |-> v],
                  OpResult("store", "unit", 0))

\* Atomic::swap (sync.rs:102-104)
Atomic_swap(t) ==
    \E v \in AtomicVals :
       AtomicStep(t, v, [before |-> atomic, val |-> v],
                  OpResult("swap", "value", atomic))

\* Mutant: a failed exchange hands back the expected value.
CompareExchangeErrCurrent(read, current, new) ==
    IF read = current
    THEN [cell |-> new, kind |-> "Ok", val |-> read]
    ELSE [cell |-> read, kind |-> "Err", val |-> current]

\* Atomic::compare_exchange (sync.rs:106-119)
CompareExchange(read, current, new) ==
    IF read = current
    THEN [cell |-> new, kind |-> "Ok", val |-> read]
    ELSE [cell |-> read, kind |-> "Err", val |-> read]

Atomic_compare_exchange(t) ==
    \E current \in AtomicVals, new \in AtomicVals :
       LET r == CompareExchange(atomic, current, new) IN
       AtomicStep(t, r.cell,
                  [before |-> atomic, current |-> current, new |-> new],
                  OpResult("compare_exchange", r.kind, r.val))

\* Atomic::fetch_add (sync.rs:122-128): let old = self.0.get();
\* self.0.set(old + val); old. The sums are kept within AtomicVals.
Atomic_fetch_add(t) ==
    \E val \in AtomicVals :
       /\ atomic + val <= MaxAtomic
       /\ AtomicStep(t, atomic + val, [before |-> atomic, val |-> val],
                     OpResult("fetch_add", "value", atomic))

\* ========================================================== HashMapExt
\* A HashMap is a function from the keys it holds to their values.
Keys == 1..MaxKeys

\* HashMap::entry(key).or_insert(value) on a vacant entry
Inserted(map, key, value) ==
    [k \in DOMAIN map \cup {key} |-> IF k = key THEN value ELSE map[k]]

\* Mutant: HashMap::insert, which replaces the value of an occupied entry.
InsertSameReplaces(map, key, value) ==
    [map |-> Inserted(map, key, value), kind |-> "unit"]

\* HashMapExt::insert_same (sync.rs:317-321):
\*   self.entry(key).and_modify(|old| assert!(*old == value))
\*       .or_insert(value)
InsertSame(map, key, value) ==
    IF key \notin DOMAIN map
    THEN [map |-> Inserted(map, key, value), kind |-> "unit"]
    ELSE IF map[key] = value
         THEN [map |-> map, kind |-> "unit"]
         ELSE [map |-> map, kind |-> "panic"]

HashMap_insert_same(t) ==
    \E key \in Keys, value \in Values :
       LET r == InsertSame(hashMap, key, value) IN
       /\ workload = "hashmap"
       /\ hashMap' = r.map
       /\ LibStep(t, [OpResult("insert_same", r.kind, 0)
                         EXCEPT !.arg = [key |-> key, value |-> value]])
       /\ UNCHANGED exceptHashMap

\* ---------------------------------------------------------------- Init
InitLib ==
    /\ oneThread = <<>>
    /\ workerLocal = <<>>
    /\ joinSt = <<>>
    /\ scopeSt = <<>>
    /\ atomic = 0
    /\ hashMap = <<>>

NoHeld == [t \in Threads |-> NoG]

InitCommon ==
    /\ mode \in Modes
    /\ stack = [t \in Threads |-> <<>>]
    /\ ret = [t \in Threads |-> NoRet]
    /\ onceVal = None                       \* Once::new (sync.rs:333-335)
    /\ writer = [t |-> 0, lvl |-> 0, n |-> 0]
    /\ hist = [fLock |-> 0, nTrue |-> 0, nNone |-> 0, first |-> 0]
    /\ finv = [t \in Threads |-> 0]
    /\ held = NoHeld
    /\ lockVal \in Values                   \* Lock::new (sync.rs:456-458)
    /\ rwVal \in Values                     \* RwLock::new (sync.rs:534-536)
    /\ InitLib

InitOnce == InitCommon /\ workload = "mixed" /\ lockVal = 1 /\ rwVal = 1

InitTrySet == InitCommon /\ workload = "try_set" /\ lockVal = 1 /\ rwVal = 1

InitLocking ==
    InitCommon /\ workload = "init_locking" /\ lockVal = 1 /\ rwVal = 1

InitNonlocking ==
    InitCommon /\ workload = "init_nonlocking" /\ lockVal = 1 /\ rwVal = 1

InitReentrant ==
    InitCommon /\ workload = "reentrant" /\ lockVal = 1 /\ rwVal = 1

InitLocks ==
    InitCommon /\ workload \in {"lock", "rwlock"} /\ lockVal = 1 /\ rwVal = 1

\* Every operation of the Once, called with pure closures.
NextOnce ==
    \E t \in Active :
       \/ Once_try_set(t)
       \/ Once_try_set_same(t)
       \/ Once_set(t)
       \/ Once_init_locking(t)
       \/ Once_init_nonlocking(t)
       \/ Once_init_nonlocking_same(t)
       \/ Once_try_get(t)
       \/ Once_get(t)
       \/ Once_borrow(t)

SpecOnce == InitOnce /\ [][NextOnce]_vars

\* Only try_set is called.
NextTrySet == \E t \in Active : Once_try_set(t)

SpecTrySet == InitTrySet /\ [][NextTrySet]_vars

\* Only init_locking is called.
NextLocking == \E t \in Active : Once_init_locking(t)

SpecLocking == InitLocking /\ [][NextLocking]_vars

\* init_nonlocking is called, and the cell is read.
NextNonlocking ==
    \E t \in Active :
       \/ Once_init_nonlocking(t)
       \/ Once_try_set(t)
       \/ Once_try_get(t)
       \/ Once_get(t)

SpecNonlocking == InitNonlocking /\ [][NextNonlocking]_vars

\* The init_* operations are called with closures that use the same Once.
NextReentrant ==
    \E t \in Active :
       \/ Once_closure(t)
       \/ NextOnce

SpecReentrant == InitReentrant /\ [][NextReentrant]_vars

\* set is called, on a cell that set or try_set may have filled.
InitSet == InitCommon /\ workload = "set" /\ lockVal = 1 /\ rwVal = 1

NextSet == \E t \in Active : Once_set(t) \/ Once_try_set(t)

SpecSet == InitSet /\ [][NextSet]_vars

\* try_set_same and init_nonlocking_same are called.
InitSame == InitCommon /\ workload = "same" /\ lockVal = 1 /\ rwVal = 1

NextSame ==
    \E t \in Active : Once_try_set_same(t) \/ Once_init_nonlocking_same(t)

SpecSame == InitSame /\ [][NextSame]_vars

\* The cell is read with try_get, get and borrow while try_set fills it.
InitGet == InitCommon /\ workload = "get" /\ lockVal = 1 /\ rwVal = 1

NextGet ==
    \E t \in Active :
       \/ Once_try_get(t)
       \/ Once_get(t)
       \/ Once_borrow(t)
       \/ Once_try_set(t)

SpecGet == InitGet /\ [][NextGet]_vars

\* A OneThread is made, used and copied by every thread.
InitOneThread ==
    InitCommon /\ workload = "onethread" /\ lockVal = 1 /\ rwVal = 1

NextOneThread ==
    \E t \in Active :
       \/ OneThread_new(t)
       \/ OneThread_into_inner(t)
       \/ OneThread_deref(t)
       \/ OneThread_deref_mut(t)
       \/ OneThread_clone(t)
       \/ OneThread_eq(t)
       \/ OneThread_hash(t)
       \/ OneThread_fmt(t)

SpecOneThread == InitOneThread /\ [][NextOneThread]_vars

\* WorkerLocal values are made and used in the serial build, where the
\* type is defined in this file.
InitWorkerLocal ==
    /\ InitCommon /\ workload = "workerlocal" /\ lockVal = 1 /\ rwVal = 1
    /\ mode = "serial"

NextWorkerLocal ==
    \E t \in Active :
       \/ WorkerLocal_new(t)
       \/ WorkerLocal_deref(t)
       \/ WorkerLocal_into_inner(t)

SpecWorkerLocal == InitWorkerLocal /\ [][NextWorkerLocal]_vars

\* One call of join.
InitJoin == InitCommon /\ workload = "join" /\ lockVal = 1 /\ rwVal = 1

NextJoin ==
    \/ \E t \in Active : Join_call(t) \/ Join_return(t)
    \/ Join_oper_a
    \/ Join_oper_b

SpecJoin == InitJoin /\ [][NextJoin]_vars

\* One call of scope, whose closure and tasks spawn tasks.
InitScope == InitCommon /\ workload = "scope" /\ lockVal = 1 /\ rwVal = 1

NextScope ==
    \/ \E t \in Active : Scope_call(t) \/ Scope_return(t)
    \/ Scope_spawn
    \/ Scope_start
    \/ Scope_task_done
    \/ Scope_body_done

SpecScope == InitScope /\ [][NextScope]_vars

\* The operations of the serial build's Atomic.
InitAtomic ==
    /\ InitCommon /\ workload = "atomic" /\ lockVal = 1 /\ rwVal = 1
    /\ mode = "serial"

NextAtomic ==
    \E t \in Active :
       \/ Atomic_new(t)
       \/ Atomic_load(t)
       \/ Atomic_store(t)
       \/ Atomic_swap(t)
       \/ Atomic_compare_exchange(t)
       \/ Atomic_fetch_add(t)

SpecAtomic == InitAtomic /\ [][NextAtomic]_vars

\* Calls of insert_same on one HashMap.
InitHashMap ==
    /\ InitCommon /\ workload = "hashmap" /\ lockVal = 1 /\ rwVal = 1

NextHashMap == \E t \in Active : HashMap_insert_same(t)

SpecHashMap == InitHashMap /\ [][NextHashMap]_vars

\* The operations of a Lock, or those of a RwLock.
NextLocks ==
    \E t \in Active :
       \/ Lock_lock(t)
       \/ Lock_try_lock(t)
       \/ Lock_with_lock(t)
       \/ Lock_borrow(t)
       \/ Lock_borrow_mut(t)
       \/ RwLock_read(t)
       \/ RwLock_write(t)
       \/ RwLock_try_write(t)
       \/ RwLock_with_read_lock(t)
       \/ RwLock_with_write_lock(t)
       \/ RwLock_borrow(t)
       \/ RwLock_borrow_mut(t)
       \/ Guard_drop(t)

SpecLocks == InitLocks /\ [][NextLocks]_vars

\* ================================================================ claims

\* ---------------------------------------------------------------- C1
RECURSIVE SumOver(_, _)
SumOver(f, S) ==
    IF S = {} THEN 0
    ELSE LET t == CHOOSE x \in S : TRUE IN f[t] + SumOver(f, S \ {t})

TrySetReturned(t) == Idle(t) /\ ret[t].op = "try_set"

\* C1: when only try_set is called on a fresh Once, exactly one call
\* returns None, namely the first to take the inner lock, and the cell holds
\* its argument; every other call returns Some(its own argument); the cell
\* is written once.
C1_TrySetFirstWins ==
    /\ hist.nNone <= 1
    /\ writer.n <= 1
    /\ (\E t \in Threads : TrySetReturned(t)) =>
          /\ hist.nNone = 1
          /\ writer.n = 1
          /\ writer.t = hist.first
    /\ \A t \in Threads : TrySetReturned(t) =>
          \/ /\ ret[t].kind = "None"
             /\ writer.t = t
             /\ onceVal = Some(ret[t].arg)
          \/ /\ ret[t].kind = "Some"
             /\ ret[t].val = ret[t].arg
             /\ onceVal # None

\* One call has won and another was handed back a different value.
C1_Witness ==
    \E t \in Threads, u \in Threads :
       /\ TrySetReturned(t) /\ ret[t].kind = "None"
       /\ TrySetReturned(u) /\ ret[u].kind = "Some"
       /\ onceVal # Some(ret[u].val)

\* ---------------------------------------------------------------- C2
\* C2: once the cell of a Once holds Set(v) it holds the same Set(v) in
\* every later state, whatever operation runs and however it ends.
C2_SetIsForever == [][onceVal # None => onceVal' = onceVal]_vars

\* The cell is set and a later call on it has ended in a panic, while
\* another thread has just read it.
C2_Witness ==
    \E t \in Threads, u \in Threads :
       /\ onceVal # None
       /\ Idle(t) /\ ret[t].kind = "panic"
       /\ ret[t].op \in {"set", "try_set_same", "init_nonlocking_same"}
       /\ Idle(u) /\ ret[u].op = "try_get" /\ ret[u].kind = "Some"

\* ---------------------------------------------------------------- C3
InClosure(t) ==
    /\ stack[t] # <<>>
    /\ Top(t).op = "init_locking"
    /\ Top(t).pc \in {"f", "f_after"}

InitLockingReturned(t) == Idle(t) /\ ret[t].op = "init_locking"

\* C3: when only init_locking is called, with closures that do not use the
\* Once, f runs at most once in total, exactly one call returns true and
\* the others false, and f runs and its result is stored while the caller
\* holds the only guard of the cell's lock, on a cell that is still empty.
C3_InitLockingOnce ==
    /\ hist.fLock <= 1
    /\ hist.nTrue <= 1
    /\ writer.n <= 1
    /\ (\E t \in Threads : InitLockingReturned(t)) =>
          hist.nTrue = 1 /\ hist.fLock = 1 /\ onceVal # None
    /\ \A t \in Threads : InitLockingReturned(t) =>
          /\ ret[t].kind \in {"true", "false"}
          /\ ret[t].kind = "true" <=> ret[t].inv
          /\ ret[t].kind = "true" => writer.t = t
    /\ \A t \in Threads : InClosure(t) =>
          /\ Top(t).g.oc = 1
          /\ Live("oc") = 1
          /\ onceVal = None

\* One caller initialised the cell and another found it initialised.
C3_Witness ==
    \E t \in Threads, u \in Threads :
       /\ InitLockingReturned(t) /\ ret[t].kind = "true"
       /\ InitLockingReturned(u) /\ ret[u].kind = "false"
       /\ ret[u].arg # ret[t].arg

\* ---------------------------------------------------------------- C4
NonlockingReturned(t) == Idle(t) /\ ret[t].op = "init_nonlocking"

Observed(t) == Idle(t) /\ ret[t].op \in {"try_get", "get"}

\* The step in which thread t's try_get reads the cell.
Reads(t) ==
    /\ Running(t, "try_get", "acquire")
    /\ stack'[t] # stack[t]

C4_State ==
    /\ \A t \in Threads : finv[t] <= 1
    /\ writer.n <= 1
    /\ (\E t \in Threads : NonlockingReturned(t)) =>
          /\ SumOver(finv, Threads) >= 1
          /\ writer.n = 1
          /\ onceVal # None
    /\ \A t \in Threads :
          Observed(t) /\ ret[t].kind = "Some" => onceVal = Some(ret[t].val)

C4_Step ==
    \A t \in Threads :
       Reads(t) /\ onceVal # None =>
          /\ ret'[t].kind = "Some"
          /\ Some(ret'[t].val) = onceVal
          /\ onceVal' = onceVal

\* C4: when init_nonlocking is called concurrently, every caller runs f at
\* most once (so f runs at most N times), and once a call has returned f
\* has run at least once, exactly one result has been stored, and every
\* try_get or get from then on yields that stored value.
C4_NonlockingOneStored == []C4_State /\ [][C4_Step]_vars

\* Two callers both ran f, on different values; one was handed its value
\* back and the other thread then read the stored one.
C4_Witness ==
    \E t \in Threads, u \in Threads :
       /\ finv[t] = 1 /\ finv[u] = 1 /\ t # u
       /\ NonlockingReturned(t) /\ ret[t].kind = "Some"
       /\ Observed(u) /\ ret[u].kind = "Some"
       /\ ret[u].val # ret[t].val

\* ---------------------------------------------------------------- C5
\* C5: a returned init_nonlocking call is in exactly one of three cases:
\* f was not called and None is returned; f was called, its value is the
\* stored one, written by this call, and None is returned; f was called,
\* another call wrote the cell, and Some(f's value) is returned.
C5_NonlockingOutcomes ==
    \A t \in Threads : NonlockingReturned(t) =>
       \/ /\ ~ret[t].inv
          /\ ret[t].kind = "None"
          /\ onceVal # None
       \/ /\ ret[t].inv
          /\ ret[t].kind = "None"
          /\ writer.t = t
          /\ onceVal = Some(ret[t].arg)
       \/ /\ ret[t].inv
          /\ ret[t].kind = "Some"
          /\ ret[t].val = ret[t].arg
          /\ writer.t # t
          /\ onceVal # None

\* One call stored its value, another lost the race with a different one.
C5_Witness ==
    \E t \in Threads, u \in Threads :
       /\ NonlockingReturned(t) /\ ret[t].inv /\ ret[t].kind = "None"
       /\ NonlockingReturned(u) /\ ret[u].inv /\ ret[u].kind = "Some"
       /\ ret[u].val # ret[t].arg

\* ---------------------------------------------------------------- C6
\* C6: at most one guard of a Lock is live at any time, in both
\* configurations and whatever lock, try_lock, with_lock, borrow and
\* borrow_mut calls the threads make.
C6_OneLockGuard == Live("lk") <= 1

\* A guard is live while another acquisition of the same Lock is pending
\* and a try_lock of it has been turned away.
C6_Witness ==
    \E t \in Threads :
       /\ Live("lk") = 1
       /\ held[t].lk = 1
       /\ Idle(t) /\ ret[t].op = "try_lock" /\ ret[t].kind = "None"

\* ---------------------------------------------------------------- C7
\* C7: a RwLock has either no live write guard (and any number of read
\* guards), or exactly one write guard and no read guard; so a write() asked
\* for while readers are live is granted only once they are all released.
C7_ReadersOrWriter ==
    \/ Live("wr") = 0
    \/ Live("wr") = 1 /\ Live("rd") = 0

\* Two threads read at once while a write() is waiting for them.
C7_Witness ==
    \E t \in Threads, u \in Threads :
       /\ t # u
       /\ held[t].rd >= 1 /\ held[u].rd >= 1
       /\ Live("wr") = 0
       /\ Running(u, "write", "acquire")

\* ---------------------------------------------------------------- C8
\* The step in which a with_* call of op that has its guard ends, by the
\* return of f or by its panic.
Exits(t, op) ==
    /\ stack[t] # <<>>
    /\ Top(t).op = op
    /\ Top(t).pc \in {"f", "f_after"}
    /\ stack'[t] = <<>>

C8_Step ==
    \A t \in Threads :
       /\ Exits(t, "with_lock") =>
             /\ ret'[t].kind \in {"unit", "panic"}
             /\ Live("lk")' = 0
             /\ LockOutcome(Live("lk") > 0)' = "granted"
             /\ TryLockGrants(Live("lk"))'
       /\ Exits(t, "with_write_lock") =>
             /\ ret'[t].kind \in {"unit", "panic"}
             /\ Live("wr")' = 0 /\ Live("rd")' = 0
             /\ WriteOutcome(Live("rd"), Live("wr"))' = "granted"
             /\ TryWriteGrants(Live("rd"), Live("wr"))'
       /\ Exits(t, "with_read_lock") =>
             /\ ret'[t].kind \in {"Some", "panic"}
             /\ Live("rd")' = Live("rd") - 1
             /\ Live("wr")' = 0
             /\ ReadOutcome(Live("wr"))' = "granted"

\* C8: with_lock releases the Lock when f returns and when f panics: right
\* after either exit no guard of the Lock is live, and lock() and try_lock()
\* would be granted.  with_write_lock does the same for the RwLock, and
\* with_read_lock releases its read guard, after which read() is granted.
C8_WithLockReleases == [][C8_Step]_vars

\* f panicked inside with_lock (in the parallel configuration only f can
\* panic there) and the call left the Lock free.
C8_Witness ==
    \E t \in Threads :
       /\ mode = "parallel"
       /\ Idle(t) /\ ret[t].op = "with_lock" /\ ret[t].kind = "panic"
       /\ Live("lk") = 0

\* ---------------------------------------------------------------- C9
\* The step of a pending call of op by thread t.
Steps(t, op) ==
    /\ Running(t, op, "acquire")
    /\ stack'[t] # stack[t]

C9_State ==
    \A t \in Threads :
       /\ Running(t, "try_lock", "acquire") => ENABLED Lock_try_lock(t)
       /\ Running(t, "try_write", "acquire") => ENABLED RwLock_try_write(t)

C9_Step ==
    \A t \in Threads :
       /\ Steps(t, "try_lock") =>
             IF Live("lk") = 0
             THEN /\ ret'[t].kind = "guard"
                  /\ held'[t].lk = held[t].lk + 1
             ELSE /\ ret'[t].kind = "None"
                  /\ held' = held
                  /\ lockVal' = lockVal
       /\ Steps(t, "try_write") =>
             IF Live("rd") + Live("wr") = 0
             THEN /\ ret'[t].kind = "guard"
                  /\ held'[t].wr = held[t].wr + 1
             ELSE /\ ret'[t].kind = "Err"
                  /\ held' = held
                  /\ rwVal' = rwVal

\* C9: try_lock and try_write can always take their step (they never
\* wait), never panic, return a guard exactly when no conflicting guard is
\* live, and otherwise return None / Err(()) and change neither the guards
\* nor the inner value.
C9_TryNeverBlocks == []C9_State /\ [][C9_Step]_vars

\* try_lock was turned away by a guard another thread holds.
C9_Witness ==
    \E t \in Threads, u \in Threads :
       /\ t # u
       /\ Idle(t) /\ ret[t].op = "try_lock" /\ ret[t].kind = "None"
       /\ held[u].lk = 1

\* ---------------------------------------------------------------- C10
Acquiring(t) ==
    /\ stack[t] # <<>>
    /\ Top(t).pc = "acquire"
    /\ Top(t).op \in {"lock", "with_lock", "read", "with_read_lock",
                      "write", "with_write_lock"}

\* The acquisition thread t has pending meets a conflicting live guard.
Conflict(t) ==
    CASE Top(t).op \in {"lock", "with_lock"} -> Live("lk") > 0
      [] Top(t).op \in {"write", "with_write_lock"} ->
            Live("rd") + Live("wr") > 0
      [] OTHER -> Live("wr") > 0

\* Thread t asks for a Lock it holds itself.
SelfDeadlocked(t) ==
    /\ mode = "parallel"
    /\ Running(t, "lock", "acquire")
    /\ held[t].lk > 0

\* Thread t takes a step.
Moves(t) == stack'[t] # stack[t] \/ held'[t] # held[t]

\* The steps of the calls thread t has pending.
ThreadStep(t) ==
    \/ Lock_lock(t) \/ Lock_with_lock(t)
    \/ RwLock_read(t) \/ RwLock_with_read_lock(t)
    \/ RwLock_write(t) \/ RwLock_with_write_lock(t)

C10_State ==
    \A t \in Threads :
       (mode = "serial" /\ Acquiring(t) /\ Conflict(t)) => ENABLED ThreadStep(t)

\* The only step of a thread whose pending acquisition meets a conflict is
\* the panic of the serial configuration.
C10_Step ==
    \A t \in Threads :
       /\ (Acquiring(t) /\ Moves(t) /\ Conflict(t)) =>
             /\ mode = "serial"
             /\ stack'[t] = <<>>
             /\ ret'[t].kind = "panic"
             /\ held' = held
       /\ SelfDeadlocked(t) => SelfDeadlocked(t)'

\* C10: a conflicting lock(), read() or write() panics at once in the
\* serial configuration (its only step, and one it can take); in the
\* parallel configuration the thread takes no step while the conflicting
\* guard is live, so a thread asking for a Lock it holds waits forever.
C10_ConflictFailsOrBlocks == []C10_State /\ [][C10_Step]_vars

\* A thread waits for the Lock it holds itself.
C10_Witness == \E t \in Threads : SelfDeadlocked(t)

\* ---------------------------------------------------------------- C11
\* The step that ends a call of set by thread t.
SetEnds(t) ==
    /\ stack[t] # <<>>
    /\ stack[t][1].op = "set"
    /\ stack'[t] = <<>>

C11_Step ==
    \A t \in Threads :
       SetEnds(t) =>
          /\ IF onceVal = None
             THEN /\ onceVal' = Some(stack[t][1].arg)
                  /\ ret'[t].kind = "unit"
             ELSE /\ onceVal' = onceVal
                  /\ ret'[t].kind = "panic"
          /\ ret'[t].op = "set"
          /\ Live("oc")' = Live("oc")
          /\ Live("oc")' = 0

\* C11: set(value) stores value in an empty cell; on a cell already set it
\* panics whatever value is (the stored one included), and the stored value
\* and the released lock are after the panic what they were before the call.
C11_SetOnceOrPanic == [][C11_Step]_vars

\* set panicked on a cell that holds the very value it was given.
C11_Witness ==
    \E t \in Threads :
       /\ Idle(t)
       /\ ret[t].op = "set" /\ ret[t].kind = "panic"
       /\ onceVal = Some(ret[t].arg)

\* ---------------------------------------------------------------- C12
\* The step of a try_set_same call of thread t, made by the client or as
\* the tail call of init_nonlocking_same.
SameStep(t) ==
    /\ stack[t] # <<>>
    /\ Top(t).op = "try_set_same"
    /\ Top(t).pc = "acquire"
    /\ stack'[t] # stack[t]

C12_Step ==
    \A t \in Threads :
       SameStep(t) =>
          /\ stack'[t] = <<>>
          /\ ret'[t].op = stack[t][1].op
          /\ CASE onceVal = None ->
                    /\ onceVal' = Some(Top(t).arg)
                    /\ ret'[t].kind = "None"
               [] onceVal = Some(Top(t).arg) ->
                    /\ onceVal' = onceVal
                    /\ ret'[t].kind = "Some"
                    /\ ret'[t].val = Top(t).arg
               [] OTHER ->
                    /\ onceVal' = onceVal
                    /\ ret'[t].kind = "panic"

\* C12: try_set_same(value) stores value in an empty cell and returns None;
\* on a cell holding an equal value it returns Some(value) and leaves the
\* cell alone; on a cell holding another value it panics and the cell keeps
\* its value.  The try_set_same at the tail of init_nonlocking_same decides
\* that call's result the same way.
C12_SameOrPanic == [][C12_Step]_vars

\* init_nonlocking_same ran f, lost the race to another value and panicked.
C12_Witness ==
    \E t \in Threads :
       /\ Idle(t)
       /\ ret[t].op = "init_nonlocking_same" /\ ret[t].kind = "panic"
       /\ ret[t].inv
       /\ onceVal # None /\ onceVal # Some(ret[t].arg)

\* ---------------------------------------------------------------- C13
\* The step of a try_get call of thread t, made by the client or by get
\* (itself possibly called by borrow).
GetStep(t) ==
    /\ stack[t] # <<>>
    /\ Top(t).op = "try_get"
    /\ Top(t).pc = "acquire"
    /\ stack'[t] # stack[t]

C13_Step ==
    \A t \in Threads :
       GetStep(t) =>
          /\ stack'[t] = <<>>
          /\ onceVal' = onceVal
          /\ Live("oc")' = 0
          /\ ret'[t].op = stack[t][1].op
          /\ IF onceVal # None
             THEN ret'[t].kind = "Some" /\ ret'[t].val = onceVal[1]
             ELSE IF stack[t][1].op = "try_get"
             THEN ret'[t].kind = "None"
             ELSE ret'[t].kind = "panic"

\* C13: try_get returns None exactly when the cell is empty and the stored
\* value otherwise; get and borrow return the stored value, and panic on an
\* empty cell.  None of them writes the cell, and the cell's lock is free
\* once they have returned or panicked.
C13_GetReadsOnly == [][C13_Step]_vars

\* get panicked on the empty cell, which was set afterwards and then read by
\* borrow on another thread.
C13_Witness ==
    \E t \in Threads, u \in Threads :
       /\ Idle(t) /\ ret[t].op = "get" /\ ret[t].kind = "panic"
       /\ Idle(u) /\ ret[u].op = "borrow" /\ ret[u].kind = "Some"
       /\ onceVal = Some(ret[u].val)

\* ---------------------------------------------------------------- C14
\* The operations of a OneThread that call check().
CheckedOps == {"deref", "deref_mut", "into_inner"}

\* Thread t is not the thread that called OneThread::new.
Foreign(t) == mode = "parallel" /\ oneThread[1].thread # t

\* C14: in the parallel build a deref, deref_mut or into_inner on a thread
\* other than the creating one panics and hands out nothing, and on the
\* creating thread it yields the inner value; in the serial build it always
\* yields the inner value.
C14_CheckedOpsConfined ==
    \A t \in Threads :
       ret[t].op \in CheckedOps =>
          IF Foreign(t)
          THEN ret[t].kind = "panic" /\ ret[t].val = 0
          ELSE ret[t].kind = "value" /\ ret[t].val \in Values

\* A thread other than the creating one has called into_inner on the only
\* OneThread there is: the call has panicked and the wrapper is gone.
C14_Witness ==
    \E u \in Threads :
       /\ Len(oneThread) = 1 /\ ~oneThread[1].live
       /\ Foreign(u)
       /\ ret[u].op = "into_inner" /\ ret[u].kind = "panic"

\* ---------------------------------------------------------------- C15
\* The operations of a OneThread that read the inner value.
ReadingOps == CheckedOps \cup {"clone", "eq", "hash", "fmt"}

\* C15: in the parallel build every operation of a OneThread that reads the
\* inner value without panicking runs on the creating thread, the derived
\* Copy/Clone, PartialEq, Hash and Debug and the use of a copy included.
C15_EveryAccessConfined ==
    \A t \in Threads :
       (ret[t].op \in ReadingOps /\ ret[t].kind # "panic") => ~Foreign(t)

\* A copy of the wrapper exists, and a thread other than the creating one
\* has read the inner value through a derived operation.
C15_Witness ==
    \E t \in Threads :
       /\ Len(oneThread) = 2
       /\ Foreign(t)
       /\ ret[t].op \in {"clone", "eq", "hash", "fmt"}
       /\ ret[t].kind # "panic"

\* ---------------------------------------------------------------- C16
\* C16: in the serial build WorkerLocal::new(factory) calls factory once,
\* with index 0, and keeps factory(0); deref yields that value; into_inner
\* returns a sequence of length 1 holding it, which is <<0>> for |i| i.
C16_WorkerLocalSerial ==
    /\ \A i \in DOMAIN workerLocal :
          /\ workerLocal[i].calls = <<0>>
          /\ workerLocal[i].cell.inner = Factory(workerLocal[i].factory, 0)
    /\ \A t \in Threads :
          /\ ret[t].op = "WorkerLocal::deref" =>
                /\ ret[t].kind = "value"
                /\ ret[t].val = Factory(workerLocal[ret[t].arg].factory, 0)
          /\ ret[t].op = "WorkerLocal::into_inner" =>
                /\ ret[t].kind = "value"
                /\ Len(ret[t].val) = 1
                /\ ret[t].val[1] = Factory(workerLocal[ret[t].arg].factory, 0)
                /\ workerLocal[ret[t].arg].factory = 0 => ret[t].val = <<0>>

\* WorkerLocal::new(|i| i).into_inner() has returned [0].
C16_Witness ==
    \E t \in Threads :
       /\ ret[t].op = "WorkerLocal::into_inner"
       /\ workerLocal[ret[t].arg].factory = 0
       /\ ret[t].val = <<0>>

\* ---------------------------------------------------------------- C17
\* C17: join calls each closure once; it returns, with the pair (result of
\* a, result of b), only when both are done; in the serial build b starts
\* only after a is done.  join(|| 1, || 2) returns (1, 2) in both builds.
C17_JoinBothOnce ==
    joinSt # <<>> =>
       /\ joinSt.a.calls <= 1 /\ joinSt.b.calls <= 1
       /\ (mode = "serial" /\ joinSt.b.pc # "ready") => joinSt.a.pc = "done"
       /\ joinSt.returned =>
             /\ joinSt.a.calls = 1 /\ joinSt.b.calls = 1
             /\ joinSt.a.pc = "done" /\ joinSt.b.pc = "done"
             /\ joinSt.log[Len(joinSt.log)] = "join returns"
             /\ ret[joinSt.caller].op = "join"
             /\ ret[joinSt.caller].val = <<joinSt.a.v, joinSt.b.v>>
             /\ (joinSt.a.v = 1 /\ joinSt.b.v = 2) =>
                   ret[joinSt.caller].val = <<1, 2>>

\* join(|| 1, || 2) has returned (1, 2) in the parallel build, where b
\* started before a had ended.
C17_Witness ==
    /\ joinSt # <<>>
    /\ mode = "parallel"
    /\ joinSt.returned
    /\ joinSt.log[2] = "b starts"
    /\ ret[joinSt.caller].val = <<1, 2>>

\* ---------------------------------------------------------------- C18
\* Unit p (0 is f) is done.
UnitDone(s, p) == IF p = 0 THEN s.body = "done" ELSE s.tasks[p].st = "done"

\* C18: scope returns f's result only when every task spawned on the scope,
\* by f or by another task, has run to completion, once.  In the serial
\* build a spawned task is done before its spawner goes on (so before the
\* spawner spawns again and before it returns), and the tasks start in the
\* order they were spawned.
C18_ScopeWaitsForTasks ==
    scopeSt # <<>> =>
       LET T == DOMAIN scopeSt.tasks IN
       /\ \A i \in T : scopeSt.tasks[i].runs <= 1
       /\ scopeSt.returned =>
             /\ scopeSt.body = "done"
             /\ \A i \in T : /\ scopeSt.tasks[i].st = "done"
                             /\ scopeSt.tasks[i].runs = 1
             /\ ret[scopeSt.caller].op = "scope"
             /\ ret[scopeSt.caller].val = scopeSt.v
       /\ mode = "serial" =>
             /\ scopeSt.started = [i \in T |-> i]
             /\ \A i \in T : scopeSt.tasks[i].runs = 1
             /\ \A i \in T :
                   UnitDone(scopeSt, scopeSt.tasks[i].parent) =>
                      scopeSt.tasks[i].st = "done"
             /\ \A i \in T, j \in T :
                   (i < j /\ scopeSt.tasks[i].parent = scopeSt.tasks[j].parent)
                      => scopeSt.tasks[i].st = "done"

\* scope has returned in the parallel build after a task spawned by another
\* task has run.
C18_Witness ==
    /\ scopeSt # <<>>
    /\ mode = "parallel"
    /\ scopeSt.returned
    /\ Len(scopeSt.tasks) = 2
    /\ scopeSt.tasks[2].parent = 1
    /\ scopeSt.started = <<1, 2>>

\* ---------------------------------------------------------------- C19
\* C19: compare_exchange(current, new) on a cell holding r stores new and
\* returns Ok(r) when r = current, and otherwise leaves r in the cell and
\* returns Err(r): the payload is always the value held before the call, as
\* for a native compare-exchange run by a single thread.
C19_CompareExchange ==
    \A t \in Threads :
       ret[t].op = "compare_exchange" =>
          LET a == ret[t].arg IN
          /\ ret[t].val = a.before
          /\ IF a.before = a.current
             THEN ret[t].kind = "Ok" /\ atomic = a.new
             ELSE ret[t].kind = "Err" /\ atomic = a.before

\* An exchange failed on a cell that an earlier exchange had filled.
C19_Witness ==
    \E t \in Threads :
       /\ ret[t].op = "compare_exchange"
       /\ ret[t].kind = "Err"
       /\ ret[t].val = 2 /\ atomic = 2
       /\ ret[t].arg.current = 1 /\ ret[t].arg.new = 3

\* ---------------------------------------------------------------- C20
\* The call of insert_same that thread t completes in this step.
InsertSameBy(t) == ret'[t] # ret[t] /\ ret'[t].op = "insert_same"

\* C20: insert_same(key, value) inserts the pair when key is absent, leaves
\* the map as it is when key is present with an equal value, and panics when
\* key is present with a different value, the old value staying in the map;
\* the entries of the other keys are never modified.
C20_Step ==
    /\ \A t \in Threads :
          InsertSameBy(t) =>
             LET key == ret'[t].arg.key
                 value == ret'[t].arg.value
             IN
             /\ \A k \in Keys \ {key} :
                   /\ k \in DOMAIN hashMap' <=> k \in DOMAIN hashMap
                   /\ k \in DOMAIN hashMap => hashMap'[k] = hashMap[k]
             /\ key \in DOMAIN hashMap'
             /\ IF key \notin DOMAIN hashMap
                THEN ret'[t].kind = "unit" /\ hashMap'[key] = value
                ELSE /\ hashMap'[key] = hashMap[key]
                     /\ ret'[t].kind =
                           IF hashMap[key] = value THEN "unit" ELSE "panic"
    /\ hashMap' # hashMap => \E t \in Threads : InsertSameBy(t)

C20_InsertSame == [][C20_Step]_vars

\* A call has panicked on a key held with another value, beside a second
\* key, and the old value is still in the map.
C20_Witness ==
    \E t \in Threads :
       /\ ret[t].op = "insert_same" /\ ret[t].kind = "panic"
       /\ ret[t].arg.key \in DOMAIN hashMap
       /\ hashMap[ret[t].arg.key] # ret[t].arg.value
       /\ DOMAIN hashMap # {ret[t].arg.key}

\* ---------------------------------------------------------------- C21
\* The outermost call of thread t is one of ops, with a closure that calls
\* an operation of the same Once.
NestedIn(t, ops) ==
    /\ stack[t] # <<>>
    /\ stack[t][1].op \in ops
    /\ stack[t][1].fk = "nested"

\* The closure of the outermost call of t has made its call.
InsideF(t) == stack[t][1].pc = "f_after" /\ Len(stack[t]) > 1

\* Thread t is at the self.0.lock() that opens an operation of the Once.
AtLock(t) == stack[t] # <<>> /\ Top(t).pc \in {"acquire", "check"}

\* The steps of the calls thread t has pending on the Once.
OnceStep(t) ==
    \/ Once_closure(t)
    \/ Once_try_set(t) \/ Once_try_set_same(t) \/ Once_set(t)
    \/ Once_init_locking(t)
    \/ Once_init_nonlocking(t) \/ Once_init_nonlocking_same(t)
    \/ Once_try_get(t) \/ Once_get(t) \/ Once_borrow(t)

\* In the parallel build thread t waits for the guard its own init_locking
\* holds.
SelfBlocked(t) ==
    /\ mode = "parallel"
    /\ NestedIn(t, {"init_locking"})
    /\ InsideF(t)

C21_State ==
    \A t \in Threads :
       \* serial: the call f made is at its lock(), which panics
       /\ (mode = "serial" /\ NestedIn(t, {"init_locking"}) /\ InsideF(t)) =>
             /\ AtLock(t)
             /\ OnceLockOutcome = "panic"
             /\ ENABLED OnceStep(t)
       \* parallel: it is at its lock(), which blocks
       /\ SelfBlocked(t) => AtLock(t) /\ OnceLockOutcome = "block"
       \* init_nonlocking holds no guard while f runs: the lock is busy
       \* for the call f made only when another thread holds it
       /\ (/\ NestedIn(t, {"init_nonlocking", "init_nonlocking_same"})
           /\ InsideF(t) /\ AtLock(t)) =>
             /\ mode = "serial" => OnceLockOutcome = "granted"
             /\ OnceLockOutcome # "granted" =>
                   \E u \in Threads \ {t} : FrameSum(stack[u], "oc") > 0

C21_Step ==
    \A t \in Threads :
       \* init_locking with such an f never returns true: it returns false
       \* without calling f, or the call f made has panicked
       /\ (NestedIn(t, {"init_locking"}) /\ stack'[t] = <<>>) =>
             /\ onceVal' = onceVal
             /\ ret'[t].op = "init_locking"
             /\ \/ /\ ret'[t].kind = "false"
                   /\ stack[t][1].pc = "acquire" /\ onceVal # None
                \/ /\ ret'[t].kind = "panic"
                   /\ mode = "serial" /\ InsideF(t)
       \* serial: the panic is the only step after f's call
       /\ (/\ mode = "serial" /\ NestedIn(t, {"init_locking"}) /\ InsideF(t)
           /\ stack'[t] # stack[t]) =>
             stack'[t] = <<>> /\ ret'[t].kind = "panic"
       \* parallel: the thread never moves again, nor does any thread that
       \* is at the lock() of an operation
       /\ SelfBlocked(t) =>
             /\ stack'[t] = stack[t]
             /\ onceVal' = onceVal
             /\ \A u \in Threads : AtLock(u) => stack'[u] = stack[u]

\* C21: an f given to init_locking that calls an operation of the same
\* Once never lets init_locking complete normally: in the serial build the
\* call f makes panics at once, in the parallel build (no error checking)
\* the thread stays blocked for ever and so does every thread that calls an
\* operation of the Once afterwards; an f given to init_nonlocking runs with
\* no guard held, so the call it makes finds the lock free unless another
\* thread holds it.
C21_NestedCallNeverCompletes == []C21_State /\ [][C21_Step]_vars

\* In the parallel build the closure of thread 1's init_locking has called
\* try_get and waits for the lock, and another thread, which has called get,
\* waits for it as well, the cell being empty.
C21_Witness ==
    \E u \in Threads \ {1} :
       /\ SelfBlocked(1)
       /\ Top(1).op = "try_get" /\ Top(1).lvl = 1
       /\ stack[u] # <<>> /\ stack[u][1].op = "get" /\ AtLock(u)
       /\ onceVal = None

====
